---- MODULE Spec2Model ----
(***************************************************************************)
(* A model of torchmm/base.py: the emission models CategoricalModel and    *)
(* DiagNormalModel.  Tensors are objects on a heap (a model's field holds  *)
(* a reference, as a Python attribute does), so that aliasing and the      *)
(* in-place operations normal_() / log_normal_() are visible.  Numbers are *)
(* exact: a rational, the log of a rational, the square root of a          *)
(* rational, -inf or NaN; floating-point rounding is not modelled.         *)
(***************************************************************************)
EXTENDS Integers, Sequences, FiniteSets, TLC

\* ------------------------------------------------------------------ bounds
MaxModels == 2      \* model instances the caller constructs
MaxData == 3        \* observations in one call of fit
MaxCat == 2         \* largest category index in the data given to fit
MaxCalls == 3       \* calls the caller makes, constructors included

\* ------------------------------------------------------------------ numbers
Abs(x) == IF x < 0 THEN -x ELSE x

RECURSIVE GCD(_, _)
GCD(a, b) == IF b = 0 THEN a ELSE GCD(b, a % b)

NaN == [k |-> "nan", n |-> 0, d |-> 0]
NegInf == [k |-> "ninf", n |-> 0, d |-> 0]

\* the rational n/d (d > 0) in lowest terms
Rat(n, d) ==
    LET g == GCD(Abs(n), d)
    IN  [k |-> "rat", n |-> n \div g, d |-> d \div g]

\* the symbolic value log(n/d) of a positive rational other than 1
LogOf(n, d) == [k |-> "log", n |-> n, d |-> d]

\* the symbolic value sqrt(n/d) of a positive rational
SqrtOf(n, d) == [k |-> "sqrt", n |-> n, d |-> d]

IsNaN(v) == v.k = "nan"

Add(a, b) ==
    IF a.k = "rat" /\ b.k = "rat"
    THEN Rat(a.n * b.d + b.n * a.d, a.d * b.d)
    ELSE NaN

Sub(a, b) ==
    IF a.k = "rat" /\ b.k = "rat"
    THEN Rat(a.n * b.d - b.n * a.d, a.d * b.d)
    ELSE NaN

\* float division: 0/0 is NaN
Div(a, b) ==
    CASE a.k # "rat" \/ b.k # "rat" -> NaN
      [] b.n = 0 /\ a.n = 0 -> NaN
      [] b.n > 0 -> Rat(a.n * b.d, a.d * b.n)
      [] b.n < 0 -> Rat(-(a.n * b.d), a.d * (-b.n))

\* Tensor.log(), one entry
Log(v) ==
    CASE v.k = "nan" -> NaN
      [] v.k = "ninf" -> NaN
      [] v.k = "rat" /\ v.n < 0 -> NaN
      [] v.k = "rat" /\ v.n = 0 -> NegInf
      [] v.k = "rat" /\ v.n = v.d -> Rat(0, 1)
      [] v.k = "rat" /\ v.n > 0 /\ v.n # v.d -> LogOf(v.n, v.d)
      [] v.k = "log" /\ v.n < v.d -> NaN

\* exp(), one entry (inside softmax)
Exp(v) ==
    CASE v.k = "nan" -> NaN
      [] v.k = "ninf" -> Rat(0, 1)
      [] v.k = "rat" /\ v.n = 0 -> Rat(1, 1)
      [] v.k = "log" -> Rat(v.n, v.d)

\* sqrt(), one entry (inside std)
Sqrt(v) ==
    CASE v.k = "nan" -> NaN
      [] v.k = "rat" /\ v.n = 0 -> Rat(0, 1)
      [] v.k = "rat" /\ v.n > 0 -> SqrtOf(v.n, v.d)

\* Tensor.pow(2), one entry
Pow2(v) ==
    CASE v.k = "nan" -> NaN
      [] v.k = "rat" -> Rat(v.n * v.n, v.d * v.d)
      [] v.k = "sqrt" -> Rat(v.n, v.d)

RECURSIVE Sum(_)
Sum(s) == IF s = <<>> THEN Rat(0, 1) ELSE Add(Head(s), Sum(Tail(s)))

\* entrywise operations; a tensor's entries are kept as a tuple (SubSeq makes
\* the function one)
TLog(t) == SubSeq([j \in 1..Len(t) |-> Log(t[j])], 1, Len(t))
TExp(t) == SubSeq([j \in 1..Len(t) |-> Exp(t[j])], 1, Len(t))
TPow2(t) == SubSeq([j \in 1..Len(t) |-> Pow2(t[j])], 1, Len(t))

Mul(a, b) ==
    IF a.k = "rat" /\ b.k = "rat"
    THEN Rat(a.n * b.n, a.d * b.d)
    ELSE NaN

Min(S) == CHOOSE x \in S : \A y \in S : x <= y
Max(S) == CHOOSE x \in S : \A y \in S : x >= y

\* ------------------------------------------------------------------ state
None == 0           \* Python's None, and the absent reference of an unused field
NotATensor == -1    \* an argument that is no torch.Tensor (a list, a float)

\* the tensors the caller owns and passes to constructors and set_parameters:
\* a probability vector, its log, and a vector of another shape
CallerTensors ==
    << <<Rat(1, 2), Rat(1, 2)>>,
       <<LogOf(1, 2), LogOf(1, 2)>>,
       <<Rat(1, 1)>> >>

CallerIds == 1..Len(CallerTensors)
MaxTensors == Len(CallerTensors) + 2 * MaxModels + 2
TensorIds == 1..MaxTensors
Slots == 1..MaxModels

VARIABLES
    heap,       \* tensor object -> its entries (<<>> for an object that is not alive)
    models,     \* instance -> its attributes, each a reference to a tensor object
    last,       \* the last call: operation, instance, argument, how it ended
    calls       \* how many calls the caller has made

vars == <<heap, models, last, calls>>

NoModel == [type |-> "none", logits |-> None, means |-> None, covs |-> None]
Categorical(l) == [type |-> "CategoricalModel", logits |-> l, means |-> None, covs |-> None]
DiagNormal(m, c) == [type |-> "DiagNormalModel", logits |-> None, means |-> m, covs |-> c]

Call(op, inst, arg, status) == [op |-> op, inst |-> inst, arg |-> arg, status |-> status]

IsCat(ms, i) == ms[i].type = "CategoricalModel"
IsDiag(ms, i) == ms[i].type = "DiagNormalModel"

\* the tensor objects something still refers to
Live(ms) ==
    LET refs == {ms[i].logits : i \in Slots} \cup {ms[i].means : i \in Slots}
                    \cup {ms[i].covs : i \in Slots}
    IN  CallerIds \cup (refs \ {None})

\* reference counting: an object nothing refers to is gone
Collect(ms, h) ==
    LET live == Live(ms)
    IN  [t \in TensorIds |-> IF t \in live THEN h[t] ELSE <<>>]

\* the objects a call allocates for its results
Fresh1 == Min(TensorIds \ Live(models))
Fresh2 == Min(TensorIds \ (Live(models) \cup {Fresh1}))

FreeSlots == {i \in Slots : models[i] = NoModel}

Commit(ms, h, call) ==
    /\ calls < MaxCalls
    /\ calls' = calls + 1
    /\ models' = ms
    /\ heap' = Collect(ms, h)
    /\ last' = call

Shape(t) == <<Len(heap[t])>>

Init ==
    /\ heap = [t \in TensorIds |-> IF t \in CallerIds THEN CallerTensors[t] ELSE <<>>]
    /\ models = [i \in Slots |-> NoModel]
    /\ last = Call("none", None, <<>>, "ok")
    /\ calls = 0

\* ------------------------------------------------------------------ CategoricalModel
\* the constructor without its first test: probs wins when both are given
Categorical_init_ProbsWin(probs, logits) ==
    /\ FreeSlots # {}
    /\ LET i == Min(FreeSlots)
           arg == <<probs, logits>>
       IN  IF probs # None
           THEN LET t == Fresh1
                IN  Commit([models EXCEPT ![i] = Categorical(t)],
                           [heap EXCEPT ![t] = TLog(heap[probs])],
                           Call("Categorical_init", i, arg, "ok"))
           ELSE IF logits # None
           THEN Commit([models EXCEPT ![i] = Categorical(logits)], heap,
                       Call("Categorical_init", i, arg, "ok"))
           ELSE Commit(models, heap, Call("Categorical_init", None, arg, "ValueError"))

Categorical_init(probs, logits) ==
    /\ FreeSlots # {}
    /\ LET i == Min(FreeSlots)
           arg == <<probs, logits>>
       IN  IF probs # None /\ logits # None
           THEN Commit(models, heap, Call("Categorical_init", None, arg, "ValueError"))
           ELSE IF probs # None
           THEN LET t == Fresh1
                IN  Commit([models EXCEPT ![i] = Categorical(t)],
                           [heap EXCEPT ![t] = TLog(heap[probs])],
                           Call("Categorical_init", i, arg, "ok"))
           ELSE IF logits # None
           THEN Commit([models EXCEPT ![i] = Categorical(logits)], heap,
                       Call("Categorical_init", i, arg, "ok"))
           ELSE Commit(models, heap, Call("Categorical_init", None, arg, "ValueError"))

\* outcomes of torch.rand_like for a tensor of L entries, uniform in [0, 1):
\* all 0, or log 2 first and 0 after it
RandNoise(L) ==
    {[j \in 1..L |-> Rat(0, 1)],
     [j \in 1..L |-> IF j = 1 THEN LogOf(2, 1) ELSE Rat(0, 1)]}

Softmax(u) ==
    LET e == TExp(u)
        total == Sum(e)
    IN  SubSeq([j \in 1..Len(u) |-> Div(e[j], total)], 1, Len(u))

\* u is the outcome of torch.rand_like(self.logits)
Categorical_init_params_random(i) ==
    /\ IsCat(models, i)
    /\ \E u \in RandNoise(Len(heap[models[i].logits])) :
         LET t == Fresh1
         IN  Commit([models EXCEPT ![i].logits = t],
                    [heap EXCEPT ![t] = TLog(Softmax(u))],
                    Call("Categorical_init_params_random", i, <<>>, "ok"))

HasNaN(t) == \E j \in 1..Len(t) : IsNaN(t[j])
HasInf(t) == \E j \in 1..Len(t) : t[j].k = "ninf"

\* Categorical(logits=self.logits) is built by torch.distributions; whether it
\* refuses logits that are NaN or infinite depends on its argument validation.
\* The model's attributes are only read.
CategoricalOutcomes(i) ==
    LET l == heap[models[i].logits]
    IN  IF HasNaN(l) \/ HasInf(l) THEN {"ok", "ValueError"} ELSE {"ok"}

Categorical_sample(i, status) ==
    /\ IsCat(models, i)
    /\ status \in CategoricalOutcomes(i)
    /\ Commit(models, heap, Call("Categorical_sample", i, <<>>, status))

Categorical_log_prob(i, status) ==
    /\ IsCat(models, i)
    /\ status \in CategoricalOutcomes(i)
    /\ Commit(models, heap, Call("Categorical_log_prob", i, <<>>, status))

\* parameters() is a generator function: the call returns a generator object
Generator(items) == [kind |-> "generator", items |-> items]
List(items) == [kind |-> "list", items |-> items]

Categorical_parameters(m) == Generator(<<m.logits>>)

\* params[idx]: a generator is not subscriptable, a list raises past its end
GetItem(params, idx) ==
    IF params.kind = "generator"
    THEN [err |-> "TypeError", val |-> None]
    ELSE IF idx >= Len(params.items)
    THEN [err |-> "IndexError", val |-> None]
    ELSE [err |-> "ok", val |-> params.items[idx + 1]]

Categorical_set_parameters(i, params) ==
    /\ IsCat(models, i)
    /\ LET p0 == GetItem(params, 0)
       IN  IF p0.err # "ok"
           THEN Commit(models, heap, Call("Categorical_set_parameters", i, params, p0.err))
           ELSE Commit([models EXCEPT ![i].logits = p0.val], heap,
                       Call("Categorical_set_parameters", i, params, "ok"))

\* bincount without its minlength: as many bins as the largest index needs
Bincount_NoMinlength(X, minlength) ==
    LET size == IF X = <<>> THEN 0 ELSE Max({X[j] + 1 : j \in 1..Len(X)})
    IN  SubSeq([b \in 1..size |-> Rat(Cardinality({j \in 1..Len(X) : X[j] = b - 1}), 1)],
               1, size)

\* X.bincount(minlength=...).float() of a 1-d integer tensor without negatives
Bincount(X, minlength) ==
    LET size == Max({minlength} \cup {X[j] + 1 : j \in 1..Len(X)})
    IN  SubSeq([b \in 1..size |-> Rat(Cardinality({j \in 1..Len(X) : X[j] = b - 1}), 1)],
               1, size)

Categorical_fit(i, X) ==
    /\ IsCat(models, i)
    /\ IF \E j \in 1..Len(X) : X[j] < 0
       THEN Commit(models, heap, Call("Categorical_fit", i, X, "RuntimeError"))
       ELSE LET counts == Bincount(X, Shape(models[i].logits)[1])
                total == Sum(counts)
                prob == SubSeq([b \in 1..Len(counts) |-> Div(counts[b], total)], 1, Len(counts))
                t == Fresh1
            IN  Commit([models EXCEPT ![i].logits = t],
                       [heap EXCEPT ![t] = TLog(prob)],
                       Call("Categorical_fit", i, X, "ok"))

\* ------------------------------------------------------------------ DiagNormalModel
\* the constructor without its test of the shapes
DiagNormal_init_NoShapeCheck(means, covs) ==
    /\ FreeSlots # {}
    /\ LET i == Min(FreeSlots)
           arg == <<means, covs>>
       IN  IF means = NotATensor
           THEN Commit(models, heap, Call("DiagNormal_init", None, arg, "ValueError"))
           ELSE IF covs = NotATensor
           THEN Commit(models, heap, Call("DiagNormal_init", None, arg, "ValueError"))
           ELSE Commit([models EXCEPT ![i] = DiagNormal(means, covs)], heap,
                       Call("DiagNormal_init", i, arg, "ok"))

DiagNormal_init(means, covs) ==
    /\ FreeSlots # {}
    /\ LET i == Min(FreeSlots)
           arg == <<means, covs>>
       IN  IF means = NotATensor
           THEN Commit(models, heap, Call("DiagNormal_init", None, arg, "ValueError"))
           ELSE IF covs = NotATensor
           THEN Commit(models, heap, Call("DiagNormal_init", None, arg, "ValueError"))
           ELSE IF Shape(means) # Shape(covs)
           THEN Commit(models, heap, Call("DiagNormal_init", None, arg, "ValueError"))
           ELSE Commit([models EXCEPT ![i] = DiagNormal(means, covs)], heap,
                       Call("DiagNormal_init", i, arg, "ok"))

\* outcomes of Tensor.normal_() and Tensor.log_normal_() on L entries
NormalNoise(L) == {[j \in 1..L |-> Rat(-1, 1)], [j \in 1..L |-> Rat(j, 2)]}
LogNormalNoise(L) == {[j \in 1..L |-> Rat(1, 1)], [j \in 1..L |-> Rat(j + 1, 1)]}

\* both tensors are overwritten in place, means first; z and w are the noise
DiagNormal_init_params_random(i) ==
    /\ IsDiag(models, i)
    /\ LET m == models[i].means
           c == models[i].covs
       IN  \E z \in NormalNoise(Len(heap[m])) :
           \E w \in LogNormalNoise(Len(heap[c])) :
              LET h1 == [heap EXCEPT ![m] = z]
                  h2 == [h1 EXCEPT ![c] = w]
              IN  Commit(models, h2, Call("DiagNormal_init_params_random", i, <<>>, "ok"))

\* MultivariateNormal(loc=means, covariance_matrix=covs.abs().diag()) is built
\* by torch.distributions, which refuses what is no positive definite matrix of
\* the shape of loc; the model's attributes are only read.
DiagNormalValid(i) ==
    LET m == heap[models[i].means]
        c == heap[models[i].covs]
    IN  /\ Len(m) = Len(c)
        /\ ~HasNaN(m) /\ ~HasInf(m)
        /\ ~HasNaN(c) /\ ~HasInf(c)
        /\ \A j \in 1..Len(c) : ~(c[j].k = "rat" /\ c[j].n = 0)

DiagNormal_sample(i, status) ==
    /\ IsDiag(models, i)
    /\ status \in (IF DiagNormalValid(i) THEN {"ok"} ELSE {"ValueError"})
    /\ Commit(models, heap, Call("DiagNormal_sample", i, <<>>, status))

DiagNormal_log_prob(i, status) ==
    /\ IsDiag(models, i)
    /\ status \in (IF DiagNormalValid(i) THEN {"ok"} ELSE {"ValueError"})
    /\ Commit(models, heap, Call("DiagNormal_log_prob", i, <<>>, status))

DiagNormal_parameters(m) == Generator(<<m.means, m.covs>>)

\* the two assignments are two statements: the second subscript may raise
\* after the first assignment is done
DiagNormal_set_parameters(i, params) ==
    /\ IsDiag(models, i)
    /\ LET p0 == GetItem(params, 0)
           p1 == GetItem(params, 1)
           m1 == [models EXCEPT ![i].means = p0.val]
       IN  IF p0.err # "ok"
           THEN Commit(models, heap, Call("DiagNormal_set_parameters", i, params, p0.err))
           ELSE IF p1.err # "ok"
           THEN Commit(m1, heap, Call("DiagNormal_set_parameters", i, params, p1.err))
           ELSE Commit([m1 EXCEPT ![i].covs = p1.val], heap,
                       Call("DiagNormal_set_parameters", i, params, "ok"))

\* a batch X of shape (N, D): X.d = D, X.rows the N observations
Column(X, c) == SubSeq([r \in 1..Len(X.rows) |-> Rat(X.rows[r][c], 1)], 1, Len(X.rows))

\* X.mean(0)
Mean0(X) ==
    SubSeq([c \in 1..X.d |-> Div(Sum(Column(X, c)), Rat(Len(X.rows), 1))], 1, X.d)

\* the standard deviation without Bessel's correction: over N
Std0_Population(X) ==
    SubSeq([c \in 1..X.d |->
               LET col == Column(X, c)
                   mu == Div(Sum(col), Rat(Len(col), 1))
                   dev == SubSeq([r \in 1..Len(col) |-> Sub(col[r], mu)], 1, Len(col))
                   sq == SubSeq([r \in 1..Len(col) |-> Mul(dev[r], dev[r])], 1, Len(col))
               IN  Sqrt(Div(Sum(sq), Rat(Len(col), 1)))],
           1, X.d)

\* X.std(0): torch's default is Bessel's correction, the sum of the squared
\* deviations over max(0, N - 1)
Std0(X) ==
    SubSeq([c \in 1..X.d |->
               LET col == Column(X, c)
                   mu == Div(Sum(col), Rat(Len(col), 1))
                   dev == SubSeq([r \in 1..Len(col) |-> Sub(col[r], mu)], 1, Len(col))
                   sq == SubSeq([r \in 1..Len(col) |-> Mul(dev[r], dev[r])], 1, Len(col))
               IN  Sqrt(Div(Sum(sq), Rat(Max({0, Len(col) - 1}), 1)))],
           1, X.d)

DiagNormal_fit(i, X) ==
    /\ IsDiag(models, i)
    /\ LET t1 == Fresh1
           t2 == Fresh2
       IN  Commit([models EXCEPT ![i].means = t1, ![i].covs = t2],
                  [heap EXCEPT ![t1] = Mean0(X), ![t2] = TPow2(Std0(X))],
                  Call("DiagNormal_fit", i, X, "ok"))

\* ------------------------------------------------------------------ the caller
Seqs(S, n) == UNION {[1..k -> S] : k \in 0..n}

\* what the caller passes as probs, logits, means, covs
TensorArgs == CallerIds

\* what the caller passes to set_parameters: the generator a parameters() call
\* of some model returned, that generator made a list, or a list of its own tensors
ParamArgs ==
    {Categorical_parameters(models[j]) : j \in {s \in Slots : IsCat(models, s)}}
    \cup {DiagNormal_parameters(models[j]) : j \in {s \in Slots : IsDiag(models, s)}}
    \cup {List(Categorical_parameters(models[j]).items) : j \in {s \in Slots : IsCat(models, s)}}
    \cup {List(DiagNormal_parameters(models[j]).items) : j \in {s \in Slots : IsDiag(models, s)}}
    \cup {List(s) : s \in Seqs(CallerIds, 2)}

\* integer observations for CategoricalModel.fit
IsSorted(s) == \A j \in 1..(Len(s) - 1) : s[j] <= s[j + 1]
CatData == {s \in Seqs(0..MaxCat, MaxData) : IsSorted(s)} \cup {<<-1>>}

\* batches for DiagNormalModel.fit
DataRows == {<<1>>, <<2>>, <<3>>, <<1, 3>>, <<3, 2>>}
RowsSorted(r) == \A j \in 1..(Len(r) - 1) : r[j][1] <= r[j + 1][1]
DiagData ==
    UNION {{[d |-> D, rows |-> r] :
                r \in {q \in Seqs({x \in DataRows : Len(x) = D}, MaxData) : RowsSorted(q)}}
           : D \in 1..2}

Statuses == {"ok", "ValueError"}

NextCat ==
    \/ \E probs, logits \in TensorArgs \cup {None} : Categorical_init(probs, logits)
    \/ \E i \in Slots : Categorical_init_params_random(i)
    \/ \E i \in Slots : \E st \in Statuses : Categorical_sample(i, st)
    \/ \E i \in Slots : \E st \in Statuses : Categorical_log_prob(i, st)
    \/ \E i \in Slots : \E params \in ParamArgs : Categorical_set_parameters(i, params)
    \/ \E i \in Slots : \E X \in CatData : Categorical_fit(i, X)

NextDiag ==
    \/ \E means, covs \in TensorArgs \cup {NotATensor} : DiagNormal_init(means, covs)
    \/ \E i \in Slots : DiagNormal_init_params_random(i)
    \/ \E i \in Slots : \E st \in Statuses : DiagNormal_sample(i, st)
    \/ \E i \in Slots : \E st \in Statuses : DiagNormal_log_prob(i, st)
    \/ \E i \in Slots : \E params \in ParamArgs : DiagNormal_set_parameters(i, params)
    \/ \E i \in Slots : \E X \in DiagData : DiagNormal_fit(i, X)

SpecCat == Init /\ [][NextCat]_vars
SpecDiag == Init /\ [][NextDiag]_vars

Next == NextCat \/ NextDiag
Spec == Init /\ [][Next]_vars

\* ------------------------------------------------------------------ properties
\* the parameter values read from instance i
ParamValues(ms, h, i) ==
    IF IsCat(ms, i) THEN <<h[ms[i].logits]>>
    ELSE IF IsDiag(ms, i) THEN <<h[ms[i].means], h[ms[i].covs]>>
    ELSE <<>>

\* what m.parameters() returns
ParametersOf(m) ==
    IF m.type = "CategoricalModel" THEN Categorical_parameters(m)
    ELSE DiagNormal_parameters(m)

SetParametersOps == {"Categorical_set_parameters", "DiagNormal_set_parameters"}
MutatingOps ==
    SetParametersOps \cup
    {"Categorical_init_params_random", "Categorical_fit",
     "DiagNormal_init_params_random", "DiagNormal_fit"}

Count(X, k) == Cardinality({j \in 1..Len(X) : X[j] = k})

\* log(c/n) for integers 0 <= c <= n, n > 0
LogOfFraction(c, n) ==
    IF c = 0 THEN NegInf
    ELSE IF c = n THEN [k |-> "rat", n |-> 0, d |-> 1]
    ELSE [k |-> "log", n |-> c \div GCD(c, n), d |-> n \div GCD(c, n)]

\* C1: m.set_parameters(m.parameters()) completes without error and leaves the
\* parameters of m as they were.
C1_RoundTrip ==
    [][\A i \in Slots :
          (/\ last'.op \in SetParametersOps
           /\ last'.inst = i
           /\ last'.arg = ParametersOf(models[i]))
          => (/\ last'.status = "ok"
              /\ models'[i] = models[i]
              /\ ParamValues(models', heap', i) = ParamValues(models, heap, i))]_vars

\* C2: a call that raises leaves every parameter of the model as it was before
\* the call (no failed call has updated only some of them).
C2_FailedCallChangesNothing ==
    [][\A i \in Slots :
          (last'.inst = i /\ last'.status # "ok")
          => (/\ models'[i] = models[i]
              /\ ParamValues(models', heap', i) = ParamValues(models, heap, i))]_vars

\* C3: the length of a CategoricalModel's logits never changes after construction.
C3_LogitsLengthFixed ==
    [][\A i \in Slots :
          IsCat(models, i)
          => Len(heap'[models'[i].logits]) = Len(heap[models[i].logits])]_vars

\* C4: a DiagNormalModel's means and covs have the same length, the one they had
\* at construction.
C4_MeansCovsSameLength ==
    [][\A i \in Slots :
          IsDiag(models', i)
          => (/\ Len(heap'[models'[i].means]) = Len(heap'[models'[i].covs])
              /\ IsDiag(models, i)
                 => Len(heap'[models'[i].means]) = Len(heap[models[i].means]))]_vars

\* C5: CategoricalModel.fit(X) on a non-empty X of indices in 0..K-1 stores, for
\* every category k in 0..K-1, the log of count(k in X) / |X|, whatever the logits
\* were before.
C5_FitEmpirical ==
    [][\A i \in Slots :
          (/\ last'.op = "Categorical_fit"
           /\ last'.inst = i
           /\ last'.arg # <<>>
           /\ \A j \in 1..Len(last'.arg) :
                 last'.arg[j] \in 0..(Len(heap[models[i].logits]) - 1))
          => LET X == last'.arg
                 K == Len(heap[models[i].logits])
                 new == heap'[models'[i].logits]
             IN  /\ last'.status = "ok"
                 /\ Len(new) = K
                 /\ \A k \in 0..(K - 1) : new[k + 1] = LogOfFraction(Count(X, k), Len(X))]_vars

\* a fit of <<0, 0, 1>> on two categories has stored log(2/3), log(1/3)
C5_Witness ==
    /\ last.op = "Categorical_fit"
    /\ last.status = "ok"
    /\ last.arg = <<0, 0, 1>>
    /\ heap[models[last.inst].logits] =
          <<[k |-> "log", n |-> 2, d |-> 3], [k |-> "log", n |-> 1, d |-> 3]>>

\* sums over the column c of a batch, in integers
RECURSIVE ColSum(_, _, _)
ColSum(rows, c, n) == IF n = 0 THEN 0 ELSE rows[n][c] + ColSum(rows, c, n - 1)

RECURSIVE ColSumSq(_, _, _)
ColSumSq(rows, c, n) ==
    IF n = 0 THEN 0 ELSE rows[n][c] * rows[n][c] + ColSumSq(rows, c, n - 1)

\* the instance's means are the column means of X
MeansAreMean(i, X) ==
    LET N == Len(X.rows)
        means == heap[models[i].means]
    IN  /\ Len(means) = X.d
        /\ \A c \in 1..X.d :
              /\ means[c].k = "rat"
              /\ means[c].n * N = ColSum(X.rows, c, N) * means[c].d

\* the instance's covs are the sums of squared deviations of the columns of X
\* over denom: N * Sum(x^2) - Sum(x)^2 = N * (the sum of squared deviations)
CovsAreVariance(i, X, denom) ==
    LET N == Len(X.rows)
        covs == heap[models[i].covs]
    IN  /\ Len(covs) = X.d
        /\ \A c \in 1..X.d :
              /\ covs[c].k = "rat"
              /\ covs[c].n * N * denom =
                    (N * ColSumSq(X.rows, c, N) - ColSum(X.rows, c, N) * ColSum(X.rows, c, N))
                    * covs[c].d

\* C6, as claimed: after DiagNormalModel.fit(X) with N >= 1 observations, means is
\* the per-dimension mean and covs the per-dimension population variance (the sum
\* of squared deviations over N).
C6_FitPopulationVariance ==
    (last.op = "DiagNormal_fit" /\ Len(last.arg.rows) >= 1)
    => (/\ MeansAreMean(last.inst, last.arg)
        /\ CovsAreVariance(last.inst, last.arg, Len(last.arg.rows)))

\* C6, amended: after DiagNormalModel.fit(X) with N >= 2 observations, means is
\* the per-dimension mean and covs the per-dimension sample variance (the sum of
\* squared deviations over N - 1).
C6_FitSampleVariance ==
    (last.op = "DiagNormal_fit" /\ Len(last.arg.rows) >= 2)
    => (/\ last.status = "ok"
        /\ MeansAreMean(last.inst, last.arg)
        /\ CovsAreVariance(last.inst, last.arg, Len(last.arg.rows) - 1))

\* the fit of the 1-D samples 1, 2, 3 has stored mean 2 and variance 1
C6_Witness ==
    /\ last.op = "DiagNormal_fit"
    /\ last.arg = [d |-> 1, rows |-> << <<1>>, <<2>>, <<3>> >>]
    /\ heap[models[last.inst].means] = <<[k |-> "rat", n |-> 2, d |-> 1]>>
    /\ heap[models[last.inst].covs] = <<[k |-> "rat", n |-> 1, d |-> 1]>>

\* C7: after a mutating operation on a CategoricalModel no entry of its logits
\* is NaN.
C7_LogitsNeverNaN ==
    (last.op \in MutatingOps /\ last.inst \in Slots /\ IsCat(models, last.inst))
    => ~HasNaN(heap[models[last.inst].logits])

\* C8: a mutating call on one instance leaves the parameters read from every
\* other instance as they were.
C8_NoSharedState ==
    [][\A i, j \in Slots :
          (/\ i # j
           /\ last'.op \in MutatingOps
           /\ last'.inst = i
           /\ models[j] # NoModel)
          => ParamValues(models', heap', j) = ParamValues(models, heap, j)]_vars

\* log of one entry of a probability tensor, stated on the number it holds
LogOfEntry(p) ==
    IF p.k = "rat" /\ p.n >= 0 THEN LogOfFraction(p.n, p.d) ELSE NaN

\* C9: CategoricalModel(probs, logits) succeeds exactly when one of the two is
\* given and raises ValueError, creating nothing, otherwise; from probs it stores
\* log(probs), from logits the logits given.
C9_CategoricalConstruction ==
    [][last'.op = "Categorical_init"
       => LET probs == last'.arg[1]
              logits == last'.arg[2]
              i == last'.inst
          IN  /\ (last'.status = "ok") <=> ((probs = None) # (logits = None))
              /\ last'.status # "ok"
                 => (last'.status = "ValueError" /\ models' = models /\ heap' = heap)
              /\ last'.status = "ok"
                 => (/\ i \in Slots
                     /\ models[i] = NoModel
                     /\ IsCat(models', i)
                     /\ \A j \in Slots \ {i} : models'[j] = models[j]
                     /\ \A t \in Live(models) : heap'[t] = heap[t]
                     /\ probs # None
                        => LET new == heap'[models'[i].logits]
                           IN  /\ Len(new) = Len(heap[probs])
                               /\ \A e \in 1..Len(new) : new[e] = LogOfEntry(heap[probs][e])
                     /\ logits # None => models'[i].logits = logits)]_vars

\* CategoricalModel(probs=p) in one instance and CategoricalModel(logits=log p) in
\* the other: the same logits
C9_Witness ==
    /\ IsCat(models, 1) /\ IsCat(models, 2)
    /\ last = Call("Categorical_init", 2, <<None, 2>>, "ok")
    /\ models[2].logits = 2
    /\ models[1].logits \notin CallerIds
    /\ heap[models[1].logits] = heap[models[2].logits]
    /\ heap[models[1].logits] =
          <<[k |-> "log", n |-> 1, d |-> 2], [k |-> "log", n |-> 1, d |-> 2]>>

\* C10: DiagNormalModel(means, covs) raises ValueError, creating nothing, when
\* means is no tensor, covs is no tensor or their shapes differ; otherwise it
\* succeeds and holds the two tensors given.
C10_DiagNormalConstruction ==
    [][last'.op = "DiagNormal_init"
       => LET means == last'.arg[1]
              covs == last'.arg[2]
              i == last'.inst
              bad == \/ means = NotATensor
                     \/ covs = NotATensor
                     \/ Len(heap[means]) # Len(heap[covs])
          IN  /\ bad => (last'.status = "ValueError" /\ models' = models /\ heap' = heap)
              /\ ~bad
                 => (/\ last'.status = "ok"
                     /\ i \in Slots
                     /\ models[i] = NoModel
                     /\ models' = [models EXCEPT ![i] = DiagNormal(means, covs)]
                     /\ heap' = heap)]_vars

\* one instance built from two tensors of one shape, and a construction from
\* tensors of different shapes refused
C10_Witness ==
    /\ models[1] = DiagNormal(1, 2)
    /\ models[2] = NoModel
    /\ last = Call("DiagNormal_init", None, <<1, 3>>, "ValueError")

====
